---- MODULE Spec2Model ----
(***************************************************************************)
(* Model of the PhIP-seq tile visualizer.  Its main part is the Search     *)
(* component (src/components/Search.tsx, held in the tree as               *)
(* src/unnamed/part_001): the query, the light (virus) search, the         *)
(* debounced deep (protein) search and the dropdown's keyboard handling.   *)
(* The other parts are the data access layer (src/utils/api.ts), the data  *)
(* hooks of the detail pages (src/unnamed/part_000), the row packing of    *)
(* the tile track (src/unnamed/part_002) and the theme of the page frame   *)
(* (src/components/Layout.tsx).  Each part has its own specification over  *)
(* the one set of variables; the variables of the other parts stay as      *)
(* they start.                                                             *)
(*                                                                         *)
(* One action is one event-loop task: an event handler, a timer callback   *)
(* or a promise continuation, together with the render and the effects it  *)
(* triggers.  Text is a sequence of one-character strings.  Fuse.js is a   *)
(* library outside the repository; its search is abstracted as "the        *)
(* records one of whose keys contains the query, in index order, cut to    *)
(* the limit".                                                             *)
(***************************************************************************)
EXTENDS Integers, Sequences, FiniteSets, Bags, TLC

VARIABLES
    lightLoad,        \* the mount fetch of search-viruses.json: "pending", "loaded", "failed"
    virusIndex,       \* useState<VirusIndex[]>([])
    loading,          \* useState(true)
    query,            \* useState('')
    results,          \* useState<SearchResult[]>([])
    isOpen,           \* useState(false)
    selectedIndex,    \* useState(0), 0-based as in the source
    isDeepSearching,  \* useState(false)
    deepSearchRef,    \* useRef(null): 0 is null, otherwise a timer id
    timers,           \* pending setTimeout callbacks: records [id, q], q the query the closure captured
    hasCleanup,       \* whether the last run of the query effect returned its cleanup function
    inflight,         \* deepSearch calls awaiting fetch(search-index.json): the bag of their searchQuery
    fetchCount,       \* number of fetch() calls made for search-index.json in the session
    issuedSinceKey,   \* number of those made since the query last changed
    route,            \* last argument given to navigate(), <<>> when none
    navCalls          \* number of navigate() calls made by the task that ran last

vars == <<lightLoad, virusIndex, loading, query, results, isOpen, selectedIndex,
          isDeepSearching, deepSearchRef, timers, hasCleanup, inflight,
          fetchCount, issuedSinceKey, route, navCalls>>

\* The data access layer (src/utils/api.ts)
VARIABLES
    resource,         \* what the server holds under each path
    cache,            \* const cache: Record<string, unknown> = {}
    apiCalls,         \* fetchJson calls awaiting their response: the bag of their path
    requests,         \* per path, the number of fetch() calls fetchJson has made
    writes,           \* per path, the number of assignments cache[path] = data
    succeeded,        \* the paths for which a fetchJson call has returned a value
    settled           \* how the fetchJson call that ended last ended, <<>> when none has

apiVars == <<resource, cache, apiCalls, requests, writes, succeeded, settled>>

\* The deployment the site is served from
VARIABLES
    searchIndex       \* what the server holds under search-index.json: its proteins field

serverVars == <<searchIndex>>

\* The data hooks of the two detail pages (hooks/useData.ts), as used by
\* pages/VirusDetail.tsx and pages/ProteinDetail.tsx
VARIABLES
    page,             \* the route element mounted in the Layout outlet: "browser", "virus", "protein"
    navigations,      \* number of navigations to a detail page made in the session
    vpVirusId,        \* useVirusProteins: the virusId argument of the last render
    vpProteins,       \* useVirusProteins: useState<Protein[]>([])
    vpLoading,        \* useVirusProteins: useState(true)
    vpError,          \* useVirusProteins: useState<Error | null>(null)
    vpCalls,          \* api.fetchVirusProteins calls of the mounted hook awaiting their outcome: the bag of their virusId
    upProteinId,      \* useProtein: the proteinId argument of the last render
    upProtein,        \* useProtein: useState<Protein | null>(null)
    upVirusId,        \* useProtein: useState<string | null>(null)
    upLoading,        \* useProtein: useState(true)
    upError,          \* useProtein: useState<Error | null>(null)
    lookups,          \* api.findProteinById calls of the mounted hook in progress: the bag of [proteinId, stage, virusId]
    returned          \* how the findProteinById call that ended last ended, <<>> when none has

vpVars == <<vpVirusId, vpProteins, vpLoading, vpError, vpCalls>>
upVars == <<upProteinId, upProtein, upVirusId, upLoading, upError, lookups, returned>>
hookVars == <<page, navigations, vpVars, upVars>>

\* The tile track (components/TileTrack.tsx)
VARIABLES
    tiles,            \* the tiles prop the track is given
    rendered,         \* whether the track has rendered with that prop
    tileRows          \* useMemo(..., [tiles]): the rows computed for it, <<>> before the render

trackVars == <<tiles, rendered, tileRows>>

\* The theme of the page frame (components/Layout.tsx)
VARIABLES
    prefersDark,      \* window.matchMedia('(prefers-color-scheme: dark)').matches
    storedDarkMode,   \* localStorage.getItem('darkMode'): "null", "true" or "false"
    darkMode,         \* useState(() => ...)
    classDark,        \* whether document.documentElement carries the class dark
    toggles,          \* number of clicks on the toggle button so far
    reloads           \* number of reloads of the page so far

layoutVars == <<prefersDark, storedDarkMode, darkMode, classDark, toggles, reloads>>

\* everything outside the Search component and the data access layer
siteVars == <<serverVars, hookVars, trackVars, layoutVars>>

----------------------------------------------------------------------------
(* Bounds *)

MaxQueryLen == 3
MaxFetches == 2
MaxRequests == 2
MaxNavigations == 3
MaxTiles == 3
MaxPos == 2
MaxToggles == 5
MaxReloads == 5

(* Program constants *)

LightMinLen == 2
DeepMinLen == 3
VirusLimit == 5
ProteinLimit == 8
VirusKeep == 4

----------------------------------------------------------------------------
(* Data *)

Alphabet == {"a", "b"}

RECURSIVE TextsOfLen(_)
TextsOfLen(n) ==
    IF n = 0 THEN {<<>>}
    ELSE {Append(t, c) : t \in TextsOfLen(n - 1), c \in Alphabet}

Texts == UNION {TextsOfLen(n) : n \in 0..MaxQueryLen}

\* search-viruses.json as served: [{id, name}]
LightIndex ==
    << [id |-> <<"v", "1">>, name |-> <<"a", "b", "a">>],
       [id |-> <<"v", "2">>, name |-> <<"a", "b", "b">>] >>

Digits == <<"1", "2", "3", "4", "5", "6", "7", "8", "9">>

\* search-viruses.json of a deployment in which one name is shared by more
\* viruses than the light search returns
WideLightIndex ==
    [i \in 1..(VirusLimit + 1) |->
        [id |-> <<"w", Digits[i]>>, name |-> <<"a", "b", "a">>]]

\* search-index.json of that deployment: one name is shared by more proteins
\* than the deep search returns
WideDeepIndex ==
    [i \in 1..(ProteinLimit + 1) |->
        [id |-> <<"q", Digits[i]>>, name |-> <<"a", "b", "a">>,
         virusId |-> <<"w", "1">>, virusName |-> <<"a", "b", "a">>]]

\* search-index.json as served: the proteins field
DeepIndex ==
    << [id |-> <<"p", "1">>, name |-> <<"a", "b", "a", "b">>,
        virusId |-> <<"v", "1">>, virusName |-> <<"a", "b", "a">>],
       [id |-> <<"p", "2">>, name |-> <<"b", "b", "a">>,
        virusId |-> <<"v", "2">>, virusName |-> <<"a", "b", "b">>] >>

Contains(text, q) ==
    \E i \in 0..(Len(text) - Len(q)) : SubSeq(text, i + 1, i + Len(q)) = q

\* The texts typed into the input: those that occur in a name of the served
\* data, and for every length one that occurs in none.
Queries ==
    {q \in Texts :
        \/ \E i \in 1..Len(LightIndex) : Contains(LightIndex[i].name, q)
        \/ \E i \in 1..Len(DeepIndex) : Contains(DeepIndex[i].name, q)
        \/ \A i \in 1..Len(q) : q[i] = "a"}

Min(a, b) == IF a < b THEN a ELSE b
Max(a, b) == IF a > b THEN a ELSE b

Take(s, n) == SubSeq(s, 1, Min(n, Len(s)))

\* a search that ignores the limit
FuseSearch_m(index, keys, q, limit) ==
    SelectSeq(index, LAMBDA item : \E k \in keys : Contains(item[k], q))

\* new Fuse(index, {keys, threshold: 0.3}).search(q, {limit})
FuseSearch(index, keys, q, limit) ==
    Take(SelectSeq(index, LAMBDA item : \E k \in keys : Contains(item[k], q)), limit)

\* r => ({type: 'virus', id: r.item.id, name: r.item.name})
VirusResult(item) == [type |-> "virus", id |-> item.id, name |-> item.name]

\* r => ({type: 'protein', id, name, virusId, virusName})
ProteinResult(item) ==
    [type |-> "protein", id |-> item.id, name |-> item.name,
     virusId |-> item.virusId, virusName |-> item.virusName]

IsVirus(r) == r.type = "virus"
IsProtein(r) == r.type = "protein"

\* virusFuse: null (FALSE here) while virusIndex is empty
HasVirusFuse(vIndex) == Len(vIndex) > 0

\* virusFuse.search(query, {limit: 5}).map(...)
LightSearch(vIndex, q) ==
    LET found == FuseSearch(vIndex, {"name", "id"}, q, VirusLimit)
    IN  [i \in 1..Len(found) |-> VirusResult(found[i])]

\* proteinFuse.search(searchQuery, {limit: 8}), mapped to SearchResult
ProteinSearch(q) ==
    LET found == FuseSearch(searchIndex, {"name", "id", "virusName"}, q, ProteinLimit)
    IN  [i \in 1..Len(found) |-> ProteinResult(found[i])]

\* the protein results put first
MergeDeep_m(prev, q) ==
    ProteinSearch(q) \o Take(SelectSeq(prev, IsVirus), VirusKeep)

\* setResults(prev => [...virusResults.slice(0, 4), ...newProteinResults])
MergeDeep(prev, q) ==
    Take(SelectSeq(prev, IsVirus), VirusKeep) \o ProteinSearch(q)

\* the guard of the query effect: !virusFuse || query.length < 2
EffectSkips(vIndex, q) == ~HasVirusFuse(vIndex) \/ Len(q) < LightMinLen

\* the threshold of the light search used for the timer
SchedulesDeep_m(q) == Len(q) >= LightMinLen

\* query.length >= 3, the condition under which the effect sets the timer
SchedulesDeep(q) == Len(q) >= DeepMinLen

\* searchQuery.length < 3, the early return of deepSearch
DeepSearchReturnsEarly(q) == Len(q) < DeepMinLen

\* a clearTimeout that cancels nothing
ClearTimeoutRef_m(ts) == ts

\* clearTimeout(deepSearchRef.current) under if (deepSearchRef.current)
ClearTimeoutRef(ts) ==
    IF deepSearchRef # 0 THEN {t \in ts : t.id # deepSearchRef} ELSE ts

\* an effect that returns no cleanup
RunCleanup_m(ts) == ts

\* the cleanup the previous effect run returned, if it returned one
RunCleanup(ts) == IF hasCleanup THEN ClearTimeoutRef(ts) ELSE ts

\* the id setTimeout returns: one no pending timer has
FreshTimerId(ts) ==
    CHOOSE n \in 1..(Cardinality(ts) + 1) :
        /\ \A t \in ts : t.id # n
        /\ \A m \in 1..(n - 1) : \E t \in ts : t.id = m

----------------------------------------------------------------------------
(* Data access layer: data *)

Paths == {"viruses.json", "proteins/index.json"}

\* The JSON values a resource can hold, by the cases JavaScript tells apart
JsonValues == {"null", "0", "[]", "{...}"}

\* cache[path] of a path never stored
Undefined == "undefined"

\* the truthiness test of if (cache[path])
Truthy(v) == v \notin {Undefined, "null", "false", "0", "\"\""}

\* a check that lets every status through
ResponseOk_m(status) == TRUE

\* response.ok
ResponseOk(status) == status \in 200..299

\* How a request can end: fetch() rejects, or resolves to a response with a
\* status and a body that is well-formed JSON or not
Responses ==
    {[kind |-> "reject", status |-> 0, wellFormed |-> FALSE]} \cup
    [kind : {"response"}, status : {200, 404}, wellFormed : BOOLEAN]

\* the module as loaded: an empty cache, no call made
ApiStart(res) ==
    /\ resource = res
    /\ cache = [path \in Paths |-> Undefined]
    /\ apiCalls = EmptyBag
    /\ requests = [path \in Paths |-> 0]
    /\ writes = [path \in Paths |-> 0]
    /\ succeeded = {}
    /\ settled = <<>>

DefaultResource == [path \in Paths |-> "{...}"]

----------------------------------------------------------------------------
(* Data hooks: data.  Ids are strings; a protein is the record of its id.  *)

\* the JavaScript values null and undefined where the other values are records
Null == [null |-> TRUE]
Missing == [undefined |-> TRUE]

\* null where the other values are strings
NullId == "null"

\* the test of if (!x) on these values
Falsy(v) == v \in {Null, Missing}

\* proteins/{virusId}.json as served, for the viruses of the library
VirusFiles ==
    "v1" :> << [id |-> "p1"], [id |-> "p2"] >> @@
    "v2" :> << [id |-> "p3"] >>

\* proteins/index.json as served; the entry of p4 names a virus file that
\* does not hold p4
ProteinIndexFile ==
    "p1" :> [virusId |-> "v1"] @@
    "p2" :> [virusId |-> "v1"] @@
    "p3" :> [virusId |-> "v2"] @@
    "p4" :> [virusId |-> "v2"]

\* the ids the routes /virus/:virusId and /protein/:proteinId are opened
\* with: ids of the library, ids it does not hold, and the name of a
\* property every object has
RouteVirusIds == {"v1", "v2", "v0"}
RouteProteinIds == {"p1", "p3", "p4", "p0", "constructor"}

\* properties an object parsed from JSON inherits from Object.prototype
PrototypeKeys == {"constructor"}

\* obj[key]: an own property, else an inherited one, else undefined
PropertyOf(obj, key) ==
    IF key \in DOMAIN obj THEN obj[key]
    ELSE IF key \in PrototypeKeys THEN [inherited |-> key]
    ELSE Missing

\* proteinInfo.virusId as it is put into the path of the virus file
VirusIdOf(proteinInfo) ==
    IF "virusId" \in DOMAIN proteinInfo THEN proteinInfo.virusId ELSE Undefined

\* proteins.find(p => p.id === proteinId)
Find(proteins, proteinId) ==
    LET hits == SelectSeq(proteins, LAMBDA p : p.id = proteinId)
    IN  IF hits = <<>> THEN Missing ELSE hits[1]

\* the Error a failed fetchJson(path) throws
ErrorOf(path) == [error |-> path]

\* `proteins/${virusId}.json`
ProteinsPath(virusId) == <<"proteins/", virusId, ".json">>

\* useVirusProteins of a page that is not mounted, or before its first effect
VirusHookIdle ==
    /\ vpVirusId = Undefined
    /\ vpProteins = <<>>
    /\ vpLoading = TRUE
    /\ vpError = Null
    /\ vpCalls = EmptyBag

\* useProtein of a page that is not mounted, or before its first effect
ProteinHookIdle ==
    /\ upProteinId = Undefined
    /\ upProtein = Null
    /\ upVirusId = NullId
    /\ upLoading = TRUE
    /\ upError = Null
    /\ lookups = EmptyBag

\* the site as opened on the index route
HooksStart ==
    /\ page = "browser"
    /\ navigations = 0
    /\ VirusHookIdle
    /\ ProteinHookIdle
    /\ returned = <<>>

----------------------------------------------------------------------------
(* Tile track: row packing *)

\* the tiles a protein can carry: residue ranges with start <= end
Tiles == {t \in [start : 0..MaxPos, end : 0..MaxPos] : t.start <= t.end}

RECURSIVE ListsOfLen(_)
ListsOfLen(n) ==
    IF n = 0 THEN {<<>>}
    ELSE {Append(ts, t) : ts \in ListsOfLen(n - 1), t \in Tiles}

\* the values of the tiles prop
TileLists == UNION {ListsOfLen(n) : n \in 0..MaxTiles}

\* [...tiles].sort((a, b) => a.start - b.start): Array.prototype.sort is
\* stable, tiles of equal start keep their order
RECURSIVE SortByStart(_)
SortByStart(ts) ==
    IF ts = <<>> THEN <<>>
    ELSE LET done == SortByStart(SubSeq(ts, 1, Len(ts) - 1))
             tile == ts[Len(ts)]
             before == SelectSeq(done, LAMBDA u : u.start <= tile.start)
             after == SelectSeq(done, LAMBDA u : u.start > tile.start)
         IN  before \o <<tile>> \o after

\* a test that lets a tile follow one that ends where it starts
Fits_m(lastTile, tile) == lastTile.end <= tile.start

\* lastTile.end < tile.start
Fits(lastTile, tile) == lastTile.end < tile.start

\* the body of the for loop over sortedTiles: the first row whose last tile
\* ends before the tile takes it, else a new row
Place(rows, tile) ==
    LET open == {i \in 1..Len(rows) : Fits(rows[i][Len(rows[i])], tile)}
    IN  IF open = {}
        THEN Append(rows, <<tile>>)
        ELSE LET first == CHOOSE i \in open : \A j \in open : i <= j
             IN  [rows EXCEPT ![first] = Append(@, tile)]

RECURSIVE PlaceAll(_, _)
PlaceAll(rows, sortedTiles) ==
    IF sortedTiles = <<>> THEN rows
    ELSE PlaceAll(Place(rows, Head(sortedTiles)), Tail(sortedTiles))

\* the value of the useMemo
TileRows(ts) == PlaceAll(<<>>, SortByStart(ts))

\* a track given the tiles ts, before its render
TrackGiven(ts) ==
    /\ tiles = ts
    /\ rendered = FALSE
    /\ tileRows = <<>>

----------------------------------------------------------------------------
(* Layout: the theme *)

\* String(darkMode)
StringOf(b) == IF b THEN "true" ELSE "false"

\* the initializer of useState: localStorage.getItem('darkMode') === 'true'
\* || window.matchMedia('(prefers-color-scheme: dark)').matches
InitialDarkMode(stored, prefers) == stored = "true" \/ prefers

\* Layout constructed in a browser whose localStorage holds stored and
\* whose system preference is prefers: the initializer, then the effect
LayoutStart(stored, prefers) ==
    /\ prefersDark = prefers
    /\ darkMode = InitialDarkMode(stored, prefers)
    /\ classDark = InitialDarkMode(stored, prefers)
    /\ storedDarkMode = StringOf(InitialDarkMode(stored, prefers))
    /\ toggles = 0
    /\ reloads = 0

\* the part of the site outside the Search component before any use of it
SiteIdle == HooksStart /\ TrackGiven(<<>>) /\ LayoutStart("null", FALSE)

----------------------------------------------------------------------------
(* The query effect: useEffect(..., [query, virusFuse, deepSearch]).  React  *)
(* runs the cleanup of the previous run, then the body, with the values of   *)
(* the render that changed a dependency.                                     *)

QueryEffect(vIndex, q) ==
    LET afterCleanup == RunCleanup(timers)
    IN  IF EffectSkips(vIndex, q)
        THEN /\ results' = <<>>
             /\ timers' = afterCleanup
             /\ hasCleanup' = FALSE
             /\ UNCHANGED <<selectedIndex, deepSearchRef>>
        ELSE LET cleared == ClearTimeoutRef(afterCleanup)
                 id == FreshTimerId(cleared)
             IN  /\ results' = LightSearch(vIndex, q)
                 /\ selectedIndex' = 0
                 /\ IF SchedulesDeep(q)
                    THEN /\ timers' = cleared \cup {[id |-> id, q |-> q]}
                         /\ deepSearchRef' = id
                    ELSE /\ timers' = cleared
                         /\ UNCHANGED deepSearchRef
                 /\ hasCleanup' = TRUE

SearchInit ==
    /\ lightLoad = "pending"
    /\ virusIndex = <<>>
    /\ loading = TRUE
    /\ query = <<>>
    /\ results = <<>>
    /\ isOpen = FALSE
    /\ selectedIndex = 0
    /\ isDeepSearching = FALSE
    /\ deepSearchRef = 0
    /\ timers = {}
    /\ hasCleanup = FALSE
    /\ inflight = EmptyBag
    /\ fetchCount = 0
    /\ issuedSinceKey = 0
    /\ route = <<>>
    /\ navCalls = 0

\* the deployment whose search-index.json holds deep
Serves(deep) == searchIndex = deep

Init == SearchInit /\ ApiStart(DefaultResource) /\ Serves(DeepIndex) /\ SiteIdle

----------------------------------------------------------------------------
(* Light index load on mount *)

\* .then(res => res.json()).then(setVirusIndex).finally(() => setLoading(false))
LightIndexLoaded(served) ==
    /\ lightLoad = "pending"
    /\ lightLoad' = "loaded"
    /\ virusIndex' = served
    /\ loading' = FALSE
    /\ IF HasVirusFuse(served) # HasVirusFuse(virusIndex)
       THEN QueryEffect(served, query)
       ELSE UNCHANGED <<results, selectedIndex, timers, deepSearchRef, hasCleanup>>
    /\ UNCHANGED <<query, isOpen, isDeepSearching, inflight, fetchCount,
                   issuedSinceKey, route>>
    /\ navCalls' = 0
    /\ UNCHANGED <<apiVars, siteVars>>

\* .catch(console.error).finally(() => setLoading(false))
LightIndexFailed ==
    /\ lightLoad = "pending"
    /\ lightLoad' = "failed"
    /\ loading' = FALSE
    /\ UNCHANGED <<virusIndex, query, results, isOpen, selectedIndex,
                   isDeepSearching, deepSearchRef, timers, hasCleanup,
                   inflight, fetchCount, issuedSinceKey, route>>
    /\ navCalls' = 0
    /\ UNCHANGED <<apiVars, siteVars>>

----------------------------------------------------------------------------
(* Input events; the input is disabled while loading *)

\* onChange: setQuery(e.target.value); setIsOpen(true)
OnChange(q) ==
    /\ ~loading
    /\ q # query
    /\ query' = q
    /\ isOpen' = TRUE
    /\ QueryEffect(virusIndex, q)
    /\ issuedSinceKey' = 0
    /\ UNCHANGED <<lightLoad, virusIndex, loading, isDeepSearching, inflight,
                   fetchCount, route>>
    /\ navCalls' = 0
    /\ UNCHANGED <<apiVars, siteVars>>

\* onFocus: setIsOpen(true)
OnFocus ==
    /\ ~loading
    /\ isOpen' = TRUE
    /\ UNCHANGED <<lightLoad, virusIndex, loading, query, results,
                   selectedIndex, isDeepSearching, deepSearchRef, timers,
                   hasCleanup, inflight, fetchCount, issuedSinceKey, route>>
    /\ navCalls' = 0
    /\ UNCHANGED <<apiVars, siteVars>>

\* mousedown outside containerRef
handleClickOutside ==
    /\ isOpen' = FALSE
    /\ UNCHANGED <<lightLoad, virusIndex, loading, query, results,
                   selectedIndex, isDeepSearching, deepSearchRef, timers,
                   hasCleanup, inflight, fetchCount, issuedSinceKey, route>>
    /\ navCalls' = 0
    /\ UNCHANGED <<apiVars, siteVars>>

----------------------------------------------------------------------------
(* Selection and keyboard *)

\* the two route prefixes exchanged
RouteOf_m(result) ==
    IF result.type = "virus" THEN <<"/protein/">> \o result.id
    ELSE <<"/virus/">> \o result.id

\* navigate(`/virus/${result.id}`) or navigate(`/protein/${result.id}`)
RouteOf(result) ==
    IF result.type = "virus" THEN <<"/virus/">> \o result.id
    ELSE <<"/protein/">> \o result.id

\* setQuery(''); setIsOpen(false); then the navigation.  present is FALSE
\* when the caller passed results[selectedIndex] of a missing entry: the
\* two setters have run when reading result.type throws.
selectResult(present, result) ==
    /\ query' = <<>>
    /\ isOpen' = FALSE
    /\ route' = IF present THEN RouteOf(result) ELSE route
    /\ navCalls' = IF present THEN 1 ELSE 0
    /\ IF query # <<>>
       THEN /\ QueryEffect(virusIndex, <<>>)
            /\ issuedSinceKey' = 0
       ELSE UNCHANGED <<results, selectedIndex, timers, deepSearchRef,
                        hasCleanup, issuedSinceKey>>
    /\ UNCHANGED <<lightLoad, virusIndex, loading, isDeepSearching, inflight,
                   fetchCount>>
    /\ UNCHANGED <<apiVars, siteVars>>

\* onClick of a dropdown entry; the dropdown renders when isOpen && results.length > 0
ClickResult(i) ==
    /\ isOpen
    /\ i \in 1..Len(results)
    /\ selectResult(TRUE, results[i])

\* if (!isOpen || results.length === 0) return
KeyHandled == isOpen /\ Len(results) > 0

\* setSelectedIndex(i => Math.min(i + 1, results.length - 1))
ArrowDown ==
    /\ KeyHandled
    /\ selectedIndex' = Min(selectedIndex + 1, Len(results) - 1)
    /\ UNCHANGED <<lightLoad, virusIndex, loading, query, results, isOpen,
                   isDeepSearching, deepSearchRef, timers, hasCleanup,
                   inflight, fetchCount, issuedSinceKey, route>>
    /\ navCalls' = 0
    /\ UNCHANGED <<apiVars, siteVars>>

\* setSelectedIndex(i => Math.max(i - 1, 0))
ArrowUp ==
    /\ KeyHandled
    /\ selectedIndex' = Max(selectedIndex - 1, 0)
    /\ UNCHANGED <<lightLoad, virusIndex, loading, query, results, isOpen,
                   isDeepSearching, deepSearchRef, timers, hasCleanup,
                   inflight, fetchCount, issuedSinceKey, route>>
    /\ navCalls' = 0
    /\ UNCHANGED <<apiVars, siteVars>>

\* selectResult(results[selectedIndex])
Enter ==
    /\ KeyHandled
    /\ IF selectedIndex < Len(results)
       THEN selectResult(TRUE, results[selectedIndex + 1])
       ELSE selectResult(FALSE, [type |-> "undefined"])

\* Escape that also resets the selection
Escape_m ==
    /\ KeyHandled
    /\ isOpen' = FALSE
    /\ selectedIndex' = 0
    /\ UNCHANGED <<lightLoad, virusIndex, loading, query, results,
                   isDeepSearching, deepSearchRef, timers, hasCleanup,
                   inflight, fetchCount, issuedSinceKey, route>>
    /\ navCalls' = 0
    /\ UNCHANGED <<apiVars, siteVars>>

\* setIsOpen(false); inputRef.current?.blur()
Escape ==
    /\ KeyHandled
    /\ isOpen' = FALSE
    /\ UNCHANGED <<lightLoad, virusIndex, loading, query, results,
                   selectedIndex, isDeepSearching, deepSearchRef, timers,
                   hasCleanup, inflight, fetchCount, issuedSinceKey, route>>
    /\ navCalls' = 0
    /\ UNCHANGED <<apiVars, siteVars>>

----------------------------------------------------------------------------
(* Deep search *)

\* the setTimeout callback: deepSearch(query) up to its await fetch(...)
DebounceFire(t) ==
    /\ t \in timers
    /\ fetchCount < MaxFetches
    /\ timers' = timers \ {t}
    /\ IF DeepSearchReturnsEarly(t.q)
       THEN UNCHANGED <<isDeepSearching, inflight, fetchCount, issuedSinceKey>>
       ELSE /\ isDeepSearching' = TRUE
            /\ inflight' = inflight (+) SetToBag({t.q})
            /\ fetchCount' = fetchCount + 1
            /\ issuedSinceKey' = issuedSinceKey + 1
    /\ UNCHANGED <<lightLoad, virusIndex, loading, query, results, isOpen,
                   selectedIndex, deepSearchRef, hasCleanup, route>>
    /\ navCalls' = 0
    /\ UNCHANGED <<apiVars, siteVars>>

\* the fetch of a call for searchQuery resolves and its body parses: the
\* merge, then finally
DeepSearchResolved(searchQuery) ==
    /\ BagIn(searchQuery, inflight)
    /\ results' = MergeDeep(results, searchQuery)
    /\ isDeepSearching' = FALSE
    /\ inflight' = inflight (-) SetToBag({searchQuery})
    /\ UNCHANGED <<lightLoad, virusIndex, loading, query, isOpen,
                   selectedIndex, deepSearchRef, timers, hasCleanup,
                   fetchCount, issuedSinceKey, route>>
    /\ navCalls' = 0
    /\ UNCHANGED <<apiVars, siteVars>>

\* a failure path without the finally block
DeepSearchFailed_m(searchQuery) ==
    /\ BagIn(searchQuery, inflight)
    /\ inflight' = inflight (-) SetToBag({searchQuery})
    /\ UNCHANGED <<lightLoad, virusIndex, loading, query, results, isOpen,
                   selectedIndex, isDeepSearching, deepSearchRef, timers,
                   hasCleanup, fetchCount, issuedSinceKey, route>>
    /\ navCalls' = 0
    /\ UNCHANGED <<apiVars, siteVars>>

\* the fetch of a call for searchQuery rejects or its body does not parse:
\* catch, then finally
DeepSearchFailed(searchQuery) ==
    /\ BagIn(searchQuery, inflight)
    /\ isDeepSearching' = FALSE
    /\ inflight' = inflight (-) SetToBag({searchQuery})
    /\ UNCHANGED <<lightLoad, virusIndex, loading, query, results, isOpen,
                   selectedIndex, deepSearchRef, timers, hasCleanup,
                   fetchCount, issuedSinceKey, route>>
    /\ navCalls' = 0
    /\ UNCHANGED <<apiVars, siteVars>>

----------------------------------------------------------------------------

Next ==
    \/ \E served \in {LightIndex, <<>>} : LightIndexLoaded(served)
    \/ LightIndexFailed
    \/ \E q \in Queries : OnChange(q)
    \/ OnFocus
    \/ handleClickOutside
    \/ \E i \in 1..Len(results) : ClickResult(i)
    \/ ArrowDown
    \/ ArrowUp
    \/ Enter
    \/ Escape
    \/ \E t \in timers : DebounceFire(t)
    \/ \E searchQuery \in BagToSet(inflight) : DeepSearchResolved(searchQuery)
    \/ \E searchQuery \in BagToSet(inflight) : DeepSearchFailed(searchQuery)

Spec == Init /\ [][Next]_vars

\* The same component over the wide light index, with the texts typed
\* limited to those that tell its cases apart.
WideQueries ==
    {<<>>, <<"a", "b">>, <<"a", "b", "a">>, <<"b", "b", "a">>}

WideNext ==
    \/ \E served \in {WideLightIndex} : LightIndexLoaded(served)
    \/ LightIndexFailed
    \/ \E q \in WideQueries : OnChange(q)
    \/ OnFocus
    \/ handleClickOutside
    \/ \E i \in 1..Len(results) : ClickResult(i)
    \/ ArrowDown
    \/ ArrowUp
    \/ Enter
    \/ Escape
    \/ \E t \in timers : DebounceFire(t)
    \/ \E searchQuery \in BagToSet(inflight) : DeepSearchResolved(searchQuery)
    \/ \E searchQuery \in BagToSet(inflight) : DeepSearchFailed(searchQuery)

WideInit ==
    SearchInit /\ ApiStart(DefaultResource) /\ Serves(WideDeepIndex) /\ SiteIdle

WideSpec == WideInit /\ [][WideNext]_vars

----------------------------------------------------------------------------
(* Data access layer: fetchJson *)

\* fetchJson(path) up to its return from the cache or its await fetch(...)
FetchJsonCall(path) ==
    /\ Truthy(cache[path]) \/ requests[path] < MaxRequests
    /\ IF Truthy(cache[path])
       THEN /\ settled' = [path |-> path, outcome |-> "value",
                           value |-> cache[path], fetched |-> FALSE]
            /\ succeeded' = succeeded \cup {path}
            /\ UNCHANGED <<apiCalls, requests>>
       ELSE /\ apiCalls' = apiCalls (+) SetToBag({path})
            /\ requests' = [requests EXCEPT ![path] = @ + 1]
            /\ UNCHANGED <<settled, succeeded>>
    /\ UNCHANGED <<resource, cache, writes>>
    /\ UNCHANGED <<vars, siteVars>>

\* the rest of fetchJson(path) once its request has ended with resp
FetchJsonSettles(path, resp) ==
    /\ BagIn(path, apiCalls)
    /\ apiCalls' = apiCalls (-) SetToBag({path})
    /\ IF resp.kind = "reject"
       THEN /\ settled' = [path |-> path, outcome |-> "error",
                           value |-> "transport", fetched |-> TRUE]
            /\ UNCHANGED <<cache, writes, succeeded>>
       ELSE IF ~ResponseOk(resp.status)
       THEN /\ settled' = [path |-> path, outcome |-> "error",
                           value |-> "status", fetched |-> TRUE]
            /\ UNCHANGED <<cache, writes, succeeded>>
       ELSE IF ~resp.wellFormed
       THEN /\ settled' = [path |-> path, outcome |-> "error",
                           value |-> "parse", fetched |-> TRUE]
            /\ UNCHANGED <<cache, writes, succeeded>>
       ELSE /\ cache' = [cache EXCEPT ![path] = resource[path]]
            /\ writes' = [writes EXCEPT ![path] = @ + 1]
            /\ succeeded' = succeeded \cup {path}
            /\ settled' = [path |-> path, outcome |-> "value",
                           value |-> resource[path], fetched |-> TRUE]
    /\ UNCHANGED <<resource, requests>>
    /\ UNCHANGED <<vars, siteVars>>

ApiInit ==
    /\ SearchInit
    /\ Serves(DeepIndex)
    /\ SiteIdle
    /\ \E res \in [Paths -> JsonValues] : ApiStart(res)

ApiNext ==
    \/ \E path \in Paths : FetchJsonCall(path)
    \/ \E path \in BagToSet(apiCalls), resp \in Responses : FetchJsonSettles(path, resp)

ApiSpec == ApiInit /\ [][ApiNext]_apiVars

----------------------------------------------------------------------------
(* Data hooks.  The router mounts one page at a time and keeps a page        *)
(* mounted while only its route parameter changes; a page that is mounted    *)
(* starts from the initial state of its hooks, and the calls of a page that  *)
(* was unmounted no longer reach any state.  fetchJson is taken by its       *)
(* outcome: a call ends with the file as served or with an error.            *)

outsideHooks == <<vars, apiVars, serverVars, trackVars, layoutVars>>

\* unmounting VirusDetail: the state of its hook is dropped
VirusHookUnmounts ==
    /\ vpVirusId' = Undefined
    /\ vpProteins' = <<>>
    /\ vpLoading' = TRUE
    /\ vpError' = Null
    /\ vpCalls' = EmptyBag

\* unmounting ProteinDetail: the state of its hook is dropped
ProteinHookUnmounts ==
    /\ upProteinId' = Undefined
    /\ upProtein' = Null
    /\ upVirusId' = NullId
    /\ upLoading' = TRUE
    /\ upError' = Null
    /\ lookups' = EmptyBag

\* the effect of useVirusProteins run for virusId, calls the calls before it
VirusProteinsEffect(virusId, calls) ==
    IF virusId = Undefined
    THEN /\ vpLoading' = FALSE
         /\ vpCalls' = calls
    ELSE /\ vpLoading' = TRUE
         /\ vpCalls' = calls (+) SetToBag({virusId})

\* the effect of useProtein run for proteinId, calls the calls before it
ProteinEffect(proteinId, calls) ==
    IF proteinId = Undefined
    THEN /\ upLoading' = FALSE
         /\ lookups' = calls
    ELSE /\ upLoading' = TRUE
         /\ lookups' = calls (+) SetToBag({[proteinId |-> proteinId,
                                            stage |-> "index",
                                            virusId |-> Undefined]})

\* navigation to /virus/{virusId}
OpenVirusPage(virusId) ==
    /\ navigations < MaxNavigations
    /\ navigations' = navigations + 1
    /\ page' = "virus"
    /\ vpVirusId' = virusId
    /\ IF page = "virus"
       THEN /\ virusId # vpVirusId
            /\ VirusProteinsEffect(virusId, vpCalls)
            /\ UNCHANGED <<vpProteins, vpError>>
            /\ UNCHANGED upVars
       ELSE /\ vpProteins' = <<>>
            /\ vpError' = Null
            /\ VirusProteinsEffect(virusId, EmptyBag)
            /\ ProteinHookUnmounts
            /\ UNCHANGED returned
    /\ UNCHANGED outsideHooks

\* navigation to /protein/{proteinId}
OpenProteinPage(proteinId) ==
    /\ navigations < MaxNavigations
    /\ navigations' = navigations + 1
    /\ page' = "protein"
    /\ upProteinId' = proteinId
    /\ IF page = "protein"
       THEN /\ proteinId # upProteinId
            /\ ProteinEffect(proteinId, lookups)
            /\ UNCHANGED <<upProtein, upVirusId, upError, returned>>
            /\ UNCHANGED vpVars
       ELSE /\ upProtein' = Null
            /\ upVirusId' = NullId
            /\ upError' = Null
            /\ ProteinEffect(proteinId, EmptyBag)
            /\ VirusHookUnmounts
            /\ UNCHANGED returned
    /\ UNCHANGED outsideHooks

\* fetchVirusProteins(virusId) resolves: .then(setProteins), .finally
VirusProteinsResolved(virusId) ==
    /\ BagIn(virusId, vpCalls)
    /\ virusId \in DOMAIN VirusFiles
    /\ vpCalls' = vpCalls (-) SetToBag({virusId})
    /\ vpProteins' = VirusFiles[virusId]
    /\ vpLoading' = FALSE
    /\ UNCHANGED <<page, navigations, vpVirusId, vpError, upVars>>
    /\ UNCHANGED outsideHooks

\* fetchVirusProteins(virusId) rejects: .catch(setError), .finally
VirusProteinsRejected(virusId) ==
    /\ BagIn(virusId, vpCalls)
    /\ vpCalls' = vpCalls (-) SetToBag({virusId})
    /\ vpError' = ErrorOf(ProteinsPath(virusId))
    /\ vpLoading' = FALSE
    /\ UNCHANGED <<page, navigations, vpVirusId, vpProteins, upVars>>
    /\ UNCHANGED outsideHooks

\* what findProteinById hands back for proteinId
Returns(proteinId, outcome, protein, virusId) ==
    [proteinId |-> proteinId, outcome |-> outcome,
     protein |-> protein, virusId |-> virusId]

\* findProteinById: fetchProteinIndex() resolves; the lookup in the index,
\* then return null (and the .then and .finally of useProtein) or the
\* call of fetchVirusProteins
IndexFetched(l) ==
    /\ BagIn(l, lookups)
    /\ l.stage = "index"
    /\ LET proteinInfo == PropertyOf(ProteinIndexFile, l.proteinId)
       IN  IF Falsy(proteinInfo)
           THEN /\ lookups' = lookups (-) SetToBag({l})
                /\ returned' = Returns(l.proteinId, "null", Null, NullId)
                /\ upLoading' = FALSE
           ELSE /\ lookups' = (lookups (-) SetToBag({l})) (+)
                              SetToBag({[l EXCEPT !.stage = "proteins",
                                                  !.virusId = VirusIdOf(proteinInfo)]})
                /\ UNCHANGED <<returned, upLoading>>
    /\ UNCHANGED <<page, navigations, upProteinId, upProtein, upVirusId,
                   upError, vpVars>>
    /\ UNCHANGED outsideHooks

\* findProteinById: fetchVirusProteins(proteinInfo.virusId) resolves; the
\* find, the return, and the .then and .finally of useProtein
ProteinsFetched(l) ==
    /\ BagIn(l, lookups)
    /\ l.stage = "proteins"
    /\ l.virusId \in DOMAIN VirusFiles
    /\ lookups' = lookups (-) SetToBag({l})
    /\ LET protein == Find(VirusFiles[l.virusId], l.proteinId)
       IN  IF Falsy(protein)
           THEN /\ returned' = Returns(l.proteinId, "null", Null, NullId)
                /\ UNCHANGED <<upProtein, upVirusId>>
           ELSE /\ returned' = Returns(l.proteinId, "value", protein, l.virusId)
                /\ upProtein' = protein
                /\ upVirusId' = l.virusId
    /\ upLoading' = FALSE
    /\ UNCHANGED <<page, navigations, upProteinId, upError, vpVars>>
    /\ UNCHANGED outsideHooks

\* findProteinById: the fetch it awaits rejects; .catch(setError), .finally
LookupFailed(l) ==
    /\ BagIn(l, lookups)
    /\ lookups' = lookups (-) SetToBag({l})
    /\ returned' = Returns(l.proteinId, "error", Null, NullId)
    /\ upError' = ErrorOf(IF l.stage = "index" THEN <<"proteins/index.json">>
                          ELSE ProteinsPath(l.virusId))
    /\ upLoading' = FALSE
    /\ UNCHANGED <<page, navigations, upProteinId, upProtein, upVirusId, vpVars>>
    /\ UNCHANGED outsideHooks

HooksNext ==
    \/ \E virusId \in RouteVirusIds : OpenVirusPage(virusId)
    \/ \E proteinId \in RouteProteinIds : OpenProteinPage(proteinId)
    \/ \E virusId \in BagToSet(vpCalls) : VirusProteinsResolved(virusId)
    \/ \E virusId \in BagToSet(vpCalls) : VirusProteinsRejected(virusId)
    \/ \E l \in BagToSet(lookups) : IndexFetched(l)
    \/ \E l \in BagToSet(lookups) : ProteinsFetched(l)
    \/ \E l \in BagToSet(lookups) : LookupFailed(l)

HooksSpec == Init /\ [][HooksNext]_hookVars

----------------------------------------------------------------------------
(* Tile track *)

\* the render of TileTrack: the useMemo computes the rows
TileTrackRenders ==
    /\ ~rendered
    /\ rendered' = TRUE
    /\ tileRows' = TileRows(tiles)
    /\ UNCHANGED tiles
    /\ UNCHANGED <<vars, apiVars, serverVars, hookVars, layoutVars>>

TrackInit ==
    /\ SearchInit
    /\ ApiStart(DefaultResource)
    /\ Serves(DeepIndex)
    /\ HooksStart
    /\ LayoutStart("null", FALSE)
    /\ \E ts \in TileLists : TrackGiven(ts)

TrackNext == TileTrackRenders

TrackSpec == TrackInit /\ [][TrackNext]_trackVars

----------------------------------------------------------------------------
(* Layout *)

\* onClick of the toggle button: setDarkMode(!darkMode), then the effect
ToggleDarkMode ==
    /\ toggles < MaxToggles
    /\ toggles' = toggles + 1
    /\ darkMode' = ~darkMode
    /\ classDark' = ~darkMode
    /\ storedDarkMode' = StringOf(~darkMode)
    /\ UNCHANGED <<prefersDark, reloads>>
    /\ UNCHANGED <<vars, apiVars, serverVars, hookVars, trackVars>>

\* a reload of the page: Layout is constructed again over the localStorage
\* the last session left
Reload ==
    /\ reloads < MaxReloads
    /\ reloads' = reloads + 1
    /\ darkMode' = InitialDarkMode(storedDarkMode, prefersDark)
    /\ classDark' = InitialDarkMode(storedDarkMode, prefersDark)
    /\ storedDarkMode' = StringOf(InitialDarkMode(storedDarkMode, prefersDark))
    /\ UNCHANGED <<prefersDark, toggles>>
    /\ UNCHANGED <<vars, apiVars, serverVars, hookVars, trackVars>>

\* the user changes the colour scheme of the system; Layout reads it only
\* in its initializer
PreferenceChanges ==
    /\ prefersDark' = ~prefersDark
    /\ UNCHANGED <<storedDarkMode, darkMode, classDark, toggles, reloads>>
    /\ UNCHANGED <<vars, apiVars, serverVars, hookVars, trackVars>>

LayoutInit ==
    /\ SearchInit
    /\ ApiStart(DefaultResource)
    /\ Serves(DeepIndex)
    /\ HooksStart
    /\ TrackGiven(<<>>)
    /\ \E stored \in {"null", "true", "false"}, prefers \in BOOLEAN :
           LayoutStart(stored, prefers)

LayoutNext ==
    \/ ToggleDarkMode
    \/ Reload
    \/ PreferenceChanges

LayoutSpec == LayoutInit /\ [][LayoutNext]_layoutVars

----------------------------------------------------------------------------
(* Properties *)

ProteinsOf(rs) == SelectSeq(rs, IsProtein)
VirusesOf(rs) == SelectSeq(rs, IsVirus)

\* a step in which an in-flight deepSearch call settles
DeepSettles == BagCardinality(inflight') < BagCardinality(inflight)

\* C1: when the query has been cleared while a deep search is in flight, the
\* resolution of that deep search is discarded: clearing the query leaves
\* results empty, and a deep search that settles while the query is empty
\* leaves results empty.
C1_ClearedQueryDiscardsDeep ==
    [][/\ (query # <<>> /\ query' = <<>>) => results' = <<>>
       /\ (query = <<>> /\ results = <<>> /\ DeepSettles) => results' = <<>>]_vars

\* C2: every protein entry of results is a deep-search match of the current
\* query, whatever the order in which deep fetches resolve.
C2_ProteinsMatchCurrentQuery ==
    \A i \in 1..Len(results) :
        IsProtein(results[i]) =>
            /\ Len(query) >= DeepMinLen
            /\ \E j \in 1..Len(ProteinSearch(query)) :
                   ProteinSearch(query)[j] = results[i]

\* C3: whenever results is non-empty, selectedIndex is an index of results,
\* and every step that replaces results by another non-empty list leaves
\* selectedIndex at 0.
C3_SelectedIndexInRange ==
    [][/\ results' # <<>> => selectedIndex' \in 0..(Len(results') - 1)
       /\ (results' # results /\ results' # <<>>) => selectedIndex' = 0]_vars

\* C4: at most one deep-search fetch is in flight at any time.
C4_OneDeepFetchInFlight == BagCardinality(inflight) <= 1

\* C5: search-index.json is fetched at most once in a session.
C5_DeepIndexFetchedOnce == fetchCount <= 1

\* C6: debounce: a pending timer is the only one and carries the current
\* query, at most one deep fetch is issued per quiet period, and once the
\* window of the last keystroke has elapsed for a query of deep-search
\* length exactly one fetch has been issued for it.
C6_Debounce ==
    /\ Cardinality(timers) <= 1
    /\ \A t \in timers : t.q = query
    /\ issuedSinceKey <= 1
    /\ (Len(query) >= DeepMinLen /\ timers = {}) => issuedSinceKey = 1

\* C7: while the query is shorter than 2 characters results is empty, and no
\* deep fetch is in flight for a query shorter than 2 characters.
C7_ShortQueryEmptyResults ==
    /\ Len(query) < LightMinLen => results = <<>>
    /\ \A q \in BagToSet(inflight) : Len(q) >= LightMinLen

\* C8: no debounce timer is pending and no deep fetch is in flight for a
\* query shorter than 3 characters; while the query is shorter than 3
\* characters no timer is pending and no fetch has been issued since the
\* query took that value.
C8_NoDeepBelowThree ==
    /\ \A t \in timers : Len(t.q) >= DeepMinLen
    /\ \A q \in BagToSet(inflight) : Len(q) >= DeepMinLen
    /\ Len(query) < DeepMinLen => (timers = {} /\ issuedSinceKey = 0)

\* C8 witness: a 2-character query whose light match has run and filled results.
C8_Witness ==
    /\ Len(query) = 2
    /\ hasCleanup
    /\ results # <<>>
    /\ timers = {}

\* C9: for a query of at least 3 characters a deep fetch is on its way: the
\* debounce timer for that query is pending, or the fetch for it has been
\* issued since the last keystroke.
C9_DeepFetchScheduled ==
    Len(query) >= DeepMinLen =>
        \/ \E t \in timers : t.q = query
        \/ issuedSinceKey >= 1

\* C10: after a failed or empty light-index load, once nothing is pending
\* for a query of at least 3 characters, results holds no virus entry and
\* holds the protein matches of that query.
C10_FailedLightIndexKeepsDeepSearch ==
    (/\ ~loading
     /\ ~HasVirusFuse(virusIndex)
     /\ Len(query) >= DeepMinLen
     /\ timers = {}
     /\ inflight = EmptyBag) =>
        /\ VirusesOf(results) = <<>>
        /\ ProteinsOf(results) = ProteinSearch(query)

\* C11: the virus entries of results are the light-index matches of the
\* current query: none while the query is shorter than 2 characters, and
\* with a loaded light index and a query of at least 2 characters exactly
\* the output of the light search for that query.
C11_VirusEntriesAreLightMatches ==
    VirusesOf(results) =
        IF HasVirusFuse(virusIndex) /\ Len(query) >= LightMinLen
        THEN LightSearch(virusIndex, query)
        ELSE <<>>

\* C12: in results every virus entry precedes every protein entry.
C12_VirusesBeforeProteins ==
    \A i, j \in 1..Len(results) :
        i < j => ~(IsProtein(results[i]) /\ IsVirus(results[j]))

\* C12 witness: a merged list that holds a virus entry and a protein entry.
C12_Witness ==
    /\ \E i \in 1..Len(results) : IsVirus(results[i])
    /\ \E j \in 1..Len(results) : IsProtein(results[j])

\* what a selection of entry r leaves behind
Selected(r) ==
    /\ query' = <<>>
    /\ isOpen' = FALSE
    /\ navCalls' = 1
    /\ route' = IF r.type = "virus" THEN <<"/virus/">> \o r.id
                ELSE <<"/protein/">> \o r.id

\* C13: a click on entry i, and Enter on the entry selectedIndex points at,
\* empty the query, close the dropdown and call navigate once, with
\* /virus/{id} for a virus entry and /protein/{id} for a protein entry; no
\* task calls navigate more than once.
C13_SelectNavigatesOnce ==
    [][/\ \A i \in 1..Len(results) : ClickResult(i) => Selected(results[i])
       /\ (Enter /\ selectedIndex < Len(results)) =>
              Selected(results[selectedIndex + 1])
       /\ navCalls' <= 1]_vars

\* C13 witness: the second of several entries was selected (Scenario D).
C13_Witness ==
    /\ navCalls = 1
    /\ route = <<"/virus/", "v", "2">>
    /\ query = <<>>
    /\ ~isOpen

\* C14: a step that sets the query to the empty string empties results and
\* leaves no timer pending, and while the query is empty no timer is
\* pending and no deep fetch has been issued since it was emptied.
C14_ClearCancelsTimer ==
    [][/\ (query # <<>> /\ query' = <<>>) => (results' = <<>> /\ timers' = {})
       /\ query' = <<>> => (timers' = {} /\ issuedSinceKey' = 0)]_vars

\* C14 witness: a timer was set, never fired, and the query is now empty.
C14_Witness ==
    /\ query = <<>>
    /\ deepSearchRef # 0
    /\ fetchCount = 0
    /\ timers = {}
    /\ results = <<>>

\* closing the dropdown and nothing else of the session state
ClosesOnly == isOpen' = FALSE /\ UNCHANGED <<query, results, selectedIndex>>

C16_ArrowsClampNoWrap ==
    [][/\ (ArrowDown \/ ArrowUp) =>
              /\ selectedIndex' \in 0..(Len(results) - 1)
              /\ UNCHANGED <<query, results>>
       /\ ArrowDown =>
              selectedIndex' = IF selectedIndex = Len(results) - 1
                               THEN selectedIndex ELSE selectedIndex + 1
       /\ ArrowUp =>
              selectedIndex' = IF selectedIndex = 0
                               THEN selectedIndex ELSE selectedIndex - 1]_vars

\* C17: a deep search whose fetch fails leaves results as it was (the virus
\* entries kept, no protein entry added) and sets isDeepSearching to false.
C17_FailedDeepKeepsResults ==
    [][\A q \in BagToSet(inflight) :
           DeepSearchFailed(q) => (results' = results /\ isDeepSearching' = FALSE)]_vars

\* C17 witness: the only deep search issued for the current query, which has
\* a protein match, has ended and results holds the virus entries alone.
C17_Witness ==
    /\ query = <<"a", "b", "a">>
    /\ issuedSinceKey = 1
    /\ inflight = EmptyBag
    /\ ~isDeepSearching
    /\ VirusesOf(results) # <<>>
    /\ ProteinsOf(results) = <<>>

\* C18: once fetchJson(path) has returned a value, a later fetchJson(path)
\* makes no network request and returns the value the resource holds, and
\* an entry stored in the cache is never removed or replaced by another.
C18_CachedAfterSuccess ==
    [][\A path \in Paths :
           /\ (path \in succeeded /\ FetchJsonCall(path)) =>
                  /\ requests' = requests
                  /\ settled'.outcome = "value"
                  /\ settled'.value = resource[path]
           /\ cache[path] # Undefined => cache'[path] = cache[path]]_apiVars

\* a request that ends in one of the three failures
Fails(resp) ==
    resp.kind = "reject" \/ resp.status \notin 200..299 \/ ~resp.wellFormed

\* C19: a fetchJson call whose request is rejected, answered with a status
\* outside 2xx or answered with a malformed body ends with an error and
\* leaves the cache as it was; a call for a path with nothing stored issues
\* a new request.
C19_FailureLeavesCache ==
    [][\A path \in Paths :
           /\ \A resp \in Responses :
                  (Fails(resp) /\ FetchJsonSettles(path, resp)) =>
                      /\ settled'.path = path
                      /\ settled'.outcome = "error"
                      /\ cache' = cache
                      /\ writes' = writes
           /\ (cache[path] = Undefined /\ FetchJsonCall(path)) =>
                  requests'[path] = requests[path] + 1]_apiVars

\* C19 witness: a call for a path failed, nothing is stored for the path,
\* and a second request has been issued for it.
C19_Witness ==
    /\ settled # <<>>
    /\ settled.outcome = "error"
    /\ cache[settled.path] = Undefined
    /\ requests[settled.path] = 2

\* C20: for every path at most one request is outstanding at a time and the
\* cache slot of the path is written at most once, whatever the
\* interleaving of the calls.
C20_PopulatedOnce ==
    \A path \in Paths :
        /\ CopiesIn(path, apiCalls) <= 1
        /\ writes[path] <= 1

\* C21: results holds at most 5 virus entries and at most 8 protein entries.
C21_ResultCaps ==
    /\ Len(VirusesOf(results)) <= VirusLimit
    /\ Len(ProteinsOf(results)) <= ProteinLimit

\* C21 witness: more proteins than the cap match the query and results holds
\* as many as the cap, after the kept virus entries.
C21_Witness ==
    /\ Len(SelectSeq(searchIndex, LAMBDA item : Contains(item.name, query))) > ProteinLimit
    /\ Len(ProteinsOf(results)) = ProteinLimit
    /\ Len(VirusesOf(results)) = VirusKeep

\* C22: at most one debounce timer is pending, a pending timer passes the
\* current query to deepSearch, and a step that changes the query leaves no
\* timer set for the previous query.
C22_OneTimerCurrentQuery ==
    [][/\ Cardinality(timers') <= 1
       /\ \A t \in timers' : t.q = query'
       /\ query' # query => \A t \in timers' : t.q # query]_vars

\* C22 witness: a timer is pending for the current query after an earlier
\* timer has fired and the query has changed since.
C22_Witness ==
    /\ Cardinality(timers) = 1
    /\ \A t \in timers : t.q = query
    /\ fetchCount >= 1
    /\ issuedSinceKey = 0

\* C23: isDeepSearching is true exactly in the states in which a deep search
\* is scheduled (a timer is pending) or in flight (a fetch is unresolved).
C23_DeepSearchingIffPending ==
    isDeepSearching <=> (timers # {} \/ inflight # EmptyBag)

\* C24: whenever the Enter key is handled, selectedIndex points at an entry
\* of results and the step navigates to the route of that entry.
C24_EnterReadsExistingEntry ==
    [][Enter =>
          /\ selectedIndex \in 0..(Len(results) - 1)
          /\ navCalls' = 1
          /\ \E i \in 1..Len(results) : route' = RouteOf(results[i])]_vars

\* C25: useVirusProteins: once every fetch issued for the sequence of
\* virusId values has settled without an error, proteins is the protein
\* list of the current virusId.
C25_LastVirusIdWins ==
    (/\ page = "virus"
     /\ vpCalls = EmptyBag
     /\ vpError = Null
     /\ vpVirusId \in DOMAIN VirusFiles) =>
        vpProteins = VirusFiles[vpVirusId]

\* C26: useProtein: once every lookup issued for the sequence of proteinId
\* values has settled, protein is null or the protein whose id is the
\* current proteinId.
C26_ProteinOfCurrentId ==
    (page = "protein" /\ lookups = EmptyBag) =>
        (upProtein = Null \/ upProtein.id = upProteinId)

\* C27: in both hooks a load for the current id that succeeds leaves error
\* null, whatever an earlier load for another id did.
C27_ErrorOfCurrentIdOnly ==
    [][/\ \A virusId \in BagToSet(vpCalls) :
              (VirusProteinsResolved(virusId) /\ virusId = vpVirusId) =>
                  vpError' = Null
       /\ \A l \in BagToSet(lookups) :
              (/\ ProteinsFetched(l)
               /\ l.proteinId = upProteinId
               /\ returned'.outcome = "value") =>
                  upError' = Null]_hookVars

\* the findProteinById calls at the stage of the virus file
AtProteins(calls) == {l \in BagToSet(calls) : l.stage = "proteins"}

\* C28: findProteinById(proteinId) returns null and fetches no virus file
\* when proteinId is not a key of the protein index; it returns null when
\* the virus file named by the index holds no protein with that id; and
\* otherwise it returns the protein with that id and the virusId of the
\* index.
C28_FindProteinById ==
    [][\A l \in BagToSet(lookups) :
           /\ (IndexFetched(l) /\ l.proteinId \notin DOMAIN ProteinIndexFile) =>
                  /\ returned' = Returns(l.proteinId, "null", Null, NullId)
                  /\ AtProteins(lookups') \subseteq AtProteins(lookups)
           /\ ProteinsFetched(l) =>
                  IF \E i \in 1..Len(VirusFiles[l.virusId]) :
                         VirusFiles[l.virusId][i].id = l.proteinId
                  THEN /\ returned'.outcome = "value"
                       /\ returned'.protein.id = l.proteinId
                       /\ returned'.virusId = ProteinIndexFile[l.proteinId].virusId
                  ELSE returned' = Returns(l.proteinId, "null", Null, NullId)]_hookVars

\* the tiles of all rows, one after the other
RECURSIVE Flatten(_)
Flatten(rows) == IF rows = <<>> THEN <<>> ELSE Head(rows) \o Flatten(Tail(rows))

\* the number of times tile t occurs in the list ts
Count(ts, t) == Cardinality({i \in 1..Len(ts) : ts[i] = t})

\* C29: every input tile is in exactly one row; inside a row each tile
\* starts strictly after the previous one ends; and for a tile of a row
\* every earlier row holds a tile that starts no later than it and ends at
\* or after its start, followed in that row by no tile that starts before
\* it: no earlier row could take it.
C29_RowPacking ==
    rendered =>
        /\ \A t \in Tiles : Count(Flatten(tileRows), t) = Count(tiles, t)
        /\ \A r \in 1..Len(tileRows) :
               /\ tileRows[r] # <<>>
               /\ \A j \in 2..Len(tileRows[r]) :
                      tileRows[r][j - 1].end < tileRows[r][j].start
        /\ \A r \in 1..Len(tileRows) : \A j \in 1..Len(tileRows[r]), e \in 1..(r - 1) :
               \E k \in 1..Len(tileRows[e]) :
                   /\ tileRows[e][k].start <= tileRows[r][j].start
                   /\ tileRows[e][k].end >= tileRows[r][j].start
                   /\ k < Len(tileRows[e]) =>
                          tileRows[e][k + 1].start >= tileRows[r][j].start

\* C29 witness: three tiles given out of order, two of them touching at one
\* position, packed into two rows of which one holds two tiles.
C29_Witness ==
    /\ rendered
    /\ Len(tiles) = 3
    /\ tiles # SortByStart(tiles)
    /\ \E i, j \in 1..Len(tiles) : i # j /\ tiles[i].end = tiles[j].start
    /\ Len(tileRows) = 2
    /\ \E r \in 1..Len(tileRows) : Len(tileRows[r]) = 2

\* C30: after a click on the toggle the stored value is the displayed
\* mode, and a reload after the user has toggled starts in the mode that
\* was displayed, whatever the system preference.
C30_DarkModeSurvivesReload ==
    [][/\ ToggleDarkMode =>
              (storedDarkMode' = StringOf(darkMode') /\ classDark' = darkMode')
       /\ (Reload /\ toggles > 0) => darkMode' = darkMode]_layoutVars

====
